---------------------------- MODULE Spec2Model ----------------------------
(***************************************************************************)
(* Model of go/vt/binlog/binlog_streamer.go: Streamer.Stream and           *)
(* Streamer.parseEvents (the binlog event loop and transaction assembler). *)
(*                                                                         *)
(* The driver that fills the event channel, the event decoders, the        *)
(* service context and the sendTransaction callback are collaborators:     *)
(* what they deliver is drawn from small sets at the step that reads it.   *)
(***************************************************************************)
EXTENDS Integers, Sequences, FiniteSets, TLC

(***************************************************************************)
(* Bounds of the model.                                                    *)
(***************************************************************************)
\* Number of events the driver delivers on the event channel in one session.
MaxEvents == 4

(***************************************************************************)
(* Values.                                                                 *)
(***************************************************************************)
\* The nil replication.GTID (var gtid replication.GTID).
NoGTID == 0
\* Marks an event whose header carries a GTID that ev.GTID(format) cannot decode.
BadGTID == -1
\* GTIDs the events of a session can carry.
GTIDs == {1, 2}
\* A GTID already folded into the position the caller starts from.
OldGTID == 9

\* The zero replication.BinlogFormat (var format replication.BinlogFormat).
ZeroFormat == 0
\* The formats a FORMAT_DESCRIPTION_EVENT of the session decodes to.
Formats == {1}
\* The formats of a session whose binlog settings change on the way.
ChangingFormats == {1, 2}

dbname == "targetdb"

\* A *binlogdatapb.Charset is a pointer, modelled by a name; NoCharset is the
\* nil pointer. CharsetOf is the Charset a non-nil pointer refers to, the
\* 3-tuple (client, conn, server).
NoCharset == "nil"
CharsetOf(p) ==
  CASE p \in {"cs-utf8", "server-utf8"} -> <<33, 33, 33>>
    [] p \in {"cs-latin1", "server-latin1"} -> <<8, 8, 8>>
    [] p = "server-mixed" -> <<33, 8, 33>>
\* The Charsets bls.conn.GetCharset() can return, each a new object.
Charsets == {"server-utf8", "server-latin1", "server-mixed"}
\* The local cs of Stream before GetCharset has been called.
NoCall == "not called"

\* Position is a set of GTIDs; startPos is what the caller hands to NewStreamer.
StartPositions == {{OldGTID}}

(***************************************************************************)
(* Errors. An error value is a record: id names the error, pos and inner   *)
(* are the arguments formatted into a wrapping error.                      *)
(***************************************************************************)
Err(id) == [id |-> id, pos |-> {}, inner |-> "", wraps |-> FALSE]
NilErr == Err("nil")
ErrClientEOF == Err("binlog stream consumer ended the reply stream")
ErrServerEOF == Err("binlog stream connection was closed by mysqld")
\* io.EOF, and some other error a callback or the driver can return.
IoEOF == Err("EOF")
OtherErr == Err("other error")
\* fmt.Errorf("send reply error: %v", err)
SendReplyError(e) == [id |-> "send reply error", pos |-> {}, inner |-> e.id, wraps |-> TRUE]
\* fmt.Errorf("stream error @ %v: %v", stopPos, err)
StreamError(stopPos, e) == [id |-> "stream error @", pos |-> stopPos, inner |-> e.id, wraps |-> TRUE]


(***************************************************************************)
(* SQL text. A string is modelled as the sequence of its space-separated   *)
(* pieces, so that strings.IndexByte(sql, ' ') is the end of the first     *)
(* piece: <<"insert", "into", "t">> is "insert into t", <<"", "begin">> is *)
(* " begin" and <<"begin">> is "begin".                                    *)
(***************************************************************************)
\* strings.ToLower on the first pieces the events of the model use.
ToLower(tok) ==
  CASE tok = "BEGIN" -> "begin"
    [] tok = "Commit" -> "commit"
    [] tok = "ROLLBACK" -> "rollback"
    [] tok = "INSERT" -> "insert"
    [] tok = "Create" -> "create"
    [] tok = "SET" -> "set"
    [] OTHER -> tok

\* statementPrefixes are normal sql statement prefixes.
statementPrefixes ==
  [tok \in {"begin", "commit", "rollback", "insert", "update", "delete",
            "create", "alter", "drop", "truncate", "rename", "set"} |->
     CASE tok = "begin" -> "BL_BEGIN"
       [] tok = "commit" -> "BL_COMMIT"
       [] tok = "rollback" -> "BL_ROLLBACK"
       [] tok \in {"insert", "update", "delete"} -> "BL_DML"
       [] tok \in {"create", "alter", "drop", "truncate", "rename"} -> "BL_DDL"
       [] tok = "set" -> "BL_SET"]

\* getStatementCategory returns the BL_* category for a SQL statement; a key
\* missing from the map reads as the zero value, BL_UNRECOGNIZED.
getStatementCategory(sql) ==
  LET tok == ToLower(sql[1])
  IN IF tok \in DOMAIN statementPrefixes THEN statementPrefixes[tok]
     ELSE "BL_UNRECOGNIZED"

\* fmt.Sprintf("SET TIMESTAMP=%d", ts)
SetTimestampSql(ts) == <<"SET", "TIMESTAMP=" \o ToString(ts)>>
\* fmt.Sprintf("SET %s=%d", name, value)
SetIntVarSql(name, value) == <<"SET", name \o "=" \o ToString(value)>>
\* fmt.Sprintf("SET @@RAND_SEED1=%d, @@RAND_SEED2=%d", seed1, seed2)
SetRandSql(seed1, seed2) ==
  <<"SET", "@@RAND_SEED1=" \o ToString(seed1) \o ",", "@@RAND_SEED2=" \o ToString(seed2)>>

(***************************************************************************)
(* Position and GTID codec (package replication).                          *)
(***************************************************************************)
\* replication.AppendGTID: fold a GTID into a position.
AppendGTID(pos, gtid) == IF gtid = NoGTID THEN pos ELSE pos \cup {gtid}

\* replication.EncodeGTID: the string form of a GTID, empty for the nil GTID.
EncodeGTID(gtid) ==
  IF gtid = NoGTID THEN "" ELSE "gtid/" \o ToString(gtid)

(***************************************************************************)
(* Binlog events, as the capabilities parseEvents reads from them.         *)
(*   valid    ev.IsValid()                                                 *)
(*   kind     which of IsFormatDescription, IsRotate, IsGTID, IsXID,       *)
(*            IsIntVar, IsRand, IsQuery holds ("OTHER": none)              *)
(*   fmt      the format ev.Format() decodes (ZeroFormat: it fails)        *)
(*   strip    ev.StripChecksum(format) succeeds                            *)
(*   gtid     NoGTID: HasGTID is false; BadGTID: ev.GTID fails; else the   *)
(*            GTID in the header of the stripped event                     *)
(*   begin    ev.IsBeginGTID(format)                                       *)
(*   ok       the per-kind decoder (IntVar, Rand, Query) succeeds          *)
(*   db, sql, charset   the decoded query                                  *)
(*   ts       ev.Timestamp()                                               *)
(***************************************************************************)
BaseEvent ==
  [valid |-> TRUE, kind |-> "OTHER", fmt |-> ZeroFormat, strip |-> TRUE,
   gtid |-> NoGTID, begin |-> FALSE, ok |-> TRUE, db |-> "", sql |-> <<"">>,
   charset |-> NoCharset, ts |-> 100]

InvalidEvent == [BaseEvent EXCEPT !.valid = FALSE]
FormatEvents ==
  {[BaseEvent EXCEPT !.kind = "FORMAT_DESC", !.fmt = f] : f \in Formats \cup {ZeroFormat}}
\* A rotate event: IsRotate before the format is known, no case of the switch after.
RotateEvent == [BaseEvent EXCEPT !.kind = "ROTATE"]
\* The stripped view of an event whose checksum cannot be stripped does not exist.
StripFailEvent == [BaseEvent EXCEPT !.strip = FALSE]
GTIDEvents ==
  {[BaseEvent EXCEPT !.kind = "GTID", !.gtid = 1, !.begin = b] : b \in BOOLEAN}
  \cup {[BaseEvent EXCEPT !.kind = "GTID", !.gtid = BadGTID]}
XIDEvents == {[BaseEvent EXCEPT !.kind = "XID"]}
IntVarEvents == {[BaseEvent EXCEPT !.kind = "INTVAR", !.ok = o] : o \in BOOLEAN}
RandEvents == {[BaseEvent EXCEPT !.kind = "RAND"]}
Query(db, sql, charset, ts) ==
  [BaseEvent EXCEPT !.kind = "QUERY", !.db = db, !.sql = sql,
                    !.charset = charset, !.ts = ts]
InsertSql == <<"insert", "into", "t", "values(1)">>
QueryEvents ==
  {[Query(dbname, <<"x">>, NoCharset, 100) EXCEPT !.ok = FALSE],
   Query(dbname, <<"BEGIN">>, "cs-utf8", 100),
   \* A COMMIT query that carries a GTID in its header (Google MySQL style).
   [Query(dbname, <<"Commit">>, "cs-utf8", 101) EXCEPT !.gtid = 2],
   Query(dbname, <<"rollback">>, "cs-utf8", 101),
   Query(dbname, InsertSql, "cs-utf8", 100),
   Query("other", InsertSql, "cs-utf8", 100),
   Query("", <<"Create", "table", "t">>, "cs-latin1", 101)}

Events ==
  {InvalidEvent, RotateEvent, StripFailEvent}
  \cup FormatEvents \cup GTIDEvents \cup XIDEvents \cup IntVarEvents
  \cup RandEvents \cup QueryEvents

\* The events of a session in which the format changes on the way.
FormatChangeEvents ==
  {[BaseEvent EXCEPT !.kind = "FORMAT_DESC", !.fmt = f] : f \in ChangingFormats \cup {ZeroFormat}}
  \cup {RotateEvent,
        [BaseEvent EXCEPT !.kind = "GTID", !.gtid = 1, !.begin = TRUE],
        [BaseEvent EXCEPT !.kind = "INTVAR"],
        Query(dbname, InsertSql, "cs-utf8", 100),
        [BaseEvent EXCEPT !.kind = "XID", !.ts = 101]}

\* The events of a session in which the GTID of a statement comes in the
\* header of its query event (Google MySQL), not in a GTID_EVENT.
HeaderGTIDEvents ==
  {[BaseEvent EXCEPT !.kind = "FORMAT_DESC", !.fmt = 1],
   [Query(dbname, InsertSql, "cs-utf8", 100) EXCEPT !.gtid = 1],
   [Query("other", InsertSql, "cs-utf8", 101) EXCEPT !.gtid = 2],
   Query("other", <<"Create", "table", "t">>, "cs-utf8", 101),
   Query(dbname, <<"BEGIN">>, "cs-utf8", 100),
   [BaseEvent EXCEPT !.kind = "INTVAR"],
   [BaseEvent EXCEPT !.kind = "XID", !.ts = 101]}

\* What sendTransaction can return: nil, io.EOF, or another error.
SendResults == {NilErr, IoEOF, OtherErr}

(***************************************************************************)
(* State.                                                                  *)
(***************************************************************************)
VARIABLES
  pc,            \* where Stream is: "start", "charset", "dump", "top", "select", "done"
  startPos,      \* bls.startPos
  clientCharset, \* bls.clientCharset (NoCharset: nil)
  conn,          \* bls.conn: "none", "open", "closed"
  cs,            \* Stream's cs: what GetCharset returned (NoCall: it was not called)
  shuttingDown,  \* ctx.ShuttingDown has been closed
  asm,           \* the locals of parseEvents (see InitAsm)
  stopPos,       \* Stream's stopPos
  err,           \* Stream's named result err
  exit,          \* history: the return statement that ended Stream ("" while running)
  log,           \* history: the events dequeued, each with the locals before it
  cancelAt       \* history: Len(log) when the signal fired, -1 before

vars == <<pc, startPos, clientCharset, conn, cs, shuttingDown, asm, stopPos,
          err, exit, log, cancelAt>>

\* The statement buffer: a nil slice, or a slice with items.
NilStatements == [isNil |-> TRUE, items |-> <<>>]
\* make([]*Statement, 0, 10)
EmptyStatements == [isNil |-> FALSE, items |-> <<>>]
\* append(statements, items...): appending to a nil slice yields a non-nil one.
AppendStatements(statements, items) ==
  [isNil |-> FALSE, items |-> statements.items \o items]

\* A statement of a transaction. src and role are history: the index in log of
\* the event that produced it, and which append produced it.
Statement(cat, sql, charset, src, role) ==
  [Category |-> cat, Sql |-> sql, Charset |-> charset, src |-> src, role |-> role]

\* The locals of parseEvents at its start, and its histories: calls lists the
\* sendTransaction invocations, folded the GTIDs passed to AppendGTID, errors
\* is binlogStreamerErrors["ParseEvents"].
InitAsm(sp) ==
  [statements |-> NilStatements, format |-> ZeroFormat, gtid |-> NoGTID,
   pos |-> sp, autocommit |-> TRUE, errors |-> 0, calls |-> <<>>, folded |-> <<>>]

\* The outcome of one turn of the loop: go on, or return (pos, e).
Continue(a) == [a |-> a, returned |-> FALSE, err |-> NilErr]
Return(a, e) == [a |-> a, returned |-> TRUE, err |-> e]

\* A mutant of begin: statements already buffered are kept.
beginKeepsStatements(a) ==
  [a EXCEPT !.errors = IF ~a.statements.isNil THEN @ + 1 ELSE @,
            !.statements = IF a.statements.isNil THEN EmptyStatements ELSE @,
            !.autocommit = FALSE]

\* begin: a BEGIN query or a begin GTID_EVENT.
begin(a) ==
  [a EXCEPT !.errors = IF ~a.statements.isNil THEN @ + 1 ELSE @,
            !.statements = EmptyStatements,
            !.autocommit = FALSE]

\* A mutant of Transaction: the timestamp is left at its zero value.
TransactionNoTimestamp(a, timestamp) ==
  [Statements |-> a.statements, Timestamp |-> 0,
   TransactionId |-> EncodeGTID(a.gtid)]

\* The transaction commit builds.
Transaction(a, timestamp) ==
  [Statements |-> a.statements, Timestamp |-> timestamp,
   TransactionId |-> EncodeGTID(a.gtid)]

\* A mutant of commit: the buffer is reset before the result of
\* sendTransaction is looked at.
commitResetsFirst(a, timestamp, sendRet, n) ==
  LET called == [a EXCEPT !.calls =
                   Append(@, [trans |-> Transaction(a, timestamp), ret |-> sendRet,
                              src |-> n, pos |-> a.pos, folded |-> a.folded])]
      reset == [called EXCEPT !.statements = NilStatements, !.autocommit = TRUE]
  IN IF sendRet # NilErr
     THEN IF sendRet = IoEOF THEN Return(reset, ErrClientEOF)
          ELSE Return(reset, SendReplyError(sendRet))
     ELSE Continue(reset)

\* commit: a COMMIT query, an XID_EVENT, or a statement outside BEGIN/COMMIT.
\* sendRet is what bls.sendTransaction returns, n the index of the event.
commit(a, timestamp, sendRet, n) ==
  LET called == [a EXCEPT !.calls =
                   Append(@, [trans |-> Transaction(a, timestamp), ret |-> sendRet,
                              src |-> n, pos |-> a.pos, folded |-> a.folded])]
  IN IF sendRet # NilErr
     THEN IF sendRet = IoEOF THEN Return(called, ErrClientEOF)
          ELSE Return(called, SendReplyError(sendRet))
     ELSE Continue([called EXCEPT !.statements = NilStatements,
                                  !.autocommit = TRUE])

(***************************************************************************)
(* One turn of the loop of parseEvents on a dequeued event ev.              *)
(***************************************************************************)
\* A mutant of AbsorbGTID: gtid is updated, pos is not.
AbsorbGTIDNoFold(a, ev) ==
  IF ev.gtid # NoGTID
  THEN IF ev.gtid = BadGTID
       THEN Return([a EXCEPT !.gtid = NoGTID], Err("can't get GTID from binlog event"))
       ELSE Continue([a EXCEPT !.gtid = ev.gtid])
  ELSE Continue(a)

\* A mutant of AbsorbGTID: only a GTID_EVENT updates gtid and pos.
AbsorbGTIDOnlyGTIDEvents(a, ev) ==
  IF ev.gtid # NoGTID /\ ev.kind = "GTID"
  THEN IF ev.gtid = BadGTID
       THEN Return([a EXCEPT !.gtid = NoGTID], Err("can't get GTID from binlog event"))
       ELSE Continue([a EXCEPT !.gtid = ev.gtid,
                               !.pos = AppendGTID(a.pos, ev.gtid),
                               !.folded = Append(@, ev.gtid)])
  ELSE Continue(a)

\* A mutant of AbsorbGTID: pos is folded, gtid keeps its old value.
AbsorbGTIDKeepsOld(a, ev) ==
  IF ev.gtid # NoGTID
  THEN IF ev.gtid = BadGTID
       THEN Return([a EXCEPT !.gtid = NoGTID], Err("can't get GTID from binlog event"))
       ELSE Continue([a EXCEPT !.pos = AppendGTID(a.pos, ev.gtid),
                               !.folded = Append(@, ev.gtid)])
  ELSE Continue(a)

\* Update the GTID if the event has one: gtid is overwritten and folded into pos.
AbsorbGTID(a, ev) ==
  IF ev.gtid # NoGTID
  THEN IF ev.gtid = BadGTID
       THEN Return([a EXCEPT !.gtid = NoGTID], Err("can't get GTID from binlog event"))
       ELSE Continue([a EXCEPT !.gtid = ev.gtid,
                               !.pos = AppendGTID(a.pos, ev.gtid),
                               !.folded = Append(@, ev.gtid)])
  ELSE Continue(a)

\* A mutant of IsCrossDb: no statement is skipped.
IsCrossDbNever(q) == FALSE

\* Skip cross-db statements.
IsCrossDb(q) == q.db # "" /\ q.db # dbname

\* If the statement has a charset and it's different than our client's default
\* charset, send it along with the statement; if our client hasn't told us its
\* charset, always send it.
StatementCharset(q, cc) ==
  IF cc = NoCharset \/ (q.charset # NoCharset /\ CharsetOf(q.charset) # CharsetOf(cc))
  THEN q.charset ELSE NoCharset

\* A mutant of QueryStatements: the SET TIMESTAMP statement is appended after
\* the statement.
QueryStatementsTimestampLast(ev, cat, cc, n) ==
  <<Statement(cat, ev.sql, StatementCharset(ev, cc), n, "query"),
    Statement("BL_SET", SetTimestampSql(ev.ts), StatementCharset(ev, cc), n, "timestamp")>>

\* The two statements a query of the default arm appends.
QueryStatements(ev, cat, cc, n) ==
  <<Statement("BL_SET", SetTimestampSql(ev.ts), StatementCharset(ev, cc), n, "timestamp"),
    Statement(cat, ev.sql, StatementCharset(ev, cc), n, "query")>>

\* A mutant of HandleQuery: a ROLLBACK query commits what is buffered.
HandleQueryRollbackKeeps(a, ev, cc, sendRet, n) ==
  IF ~ev.ok THEN Return(a, Err("can't get query from binlog event"))
  ELSE LET cat == getStatementCategory(ev.sql) IN
    CASE cat = "BL_BEGIN" -> Continue(begin(a))
      [] cat \in {"BL_ROLLBACK", "BL_COMMIT"} -> commit(a, ev.ts, sendRet, n)
      [] OTHER ->
           IF IsCrossDb(ev) THEN Continue(a)
           ELSE LET b == [a EXCEPT !.statements =
                            AppendStatements(@, QueryStatements(ev, cat, cc, n))]
                IN IF a.autocommit THEN commit(b, ev.ts, sendRet, n)
                   ELSE Continue(b)

\* A mutant of HandleQuery: a skipped cross-db statement outside a transaction
\* commits an empty transaction.
HandleQueryCommitsSkipped(a, ev, cc, sendRet, n) ==
  IF ~ev.ok THEN Return(a, Err("can't get query from binlog event"))
  ELSE LET cat == getStatementCategory(ev.sql) IN
    CASE cat = "BL_BEGIN" -> Continue(begin(a))
      [] cat = "BL_ROLLBACK" ->
           commit([a EXCEPT !.statements = NilStatements], ev.ts, sendRet, n)
      [] cat = "BL_COMMIT" -> commit(a, ev.ts, sendRet, n)
      [] OTHER ->
           IF IsCrossDb(ev)
           THEN IF a.autocommit THEN commit(a, ev.ts, sendRet, n) ELSE Continue(a)
           ELSE LET b == [a EXCEPT !.statements =
                            AppendStatements(@, QueryStatements(ev, cat, cc, n))]
                IN IF a.autocommit THEN commit(b, ev.ts, sendRet, n)
                   ELSE Continue(b)

\* case ev.IsQuery(): extract the query string and group into transactions.
HandleQuery(a, ev, cc, sendRet, n) ==
  IF ~ev.ok THEN Return(a, Err("can't get query from binlog event"))
  ELSE LET cat == getStatementCategory(ev.sql) IN
    CASE cat = "BL_BEGIN" -> Continue(begin(a))
      [] cat = "BL_ROLLBACK" ->
           commit([a EXCEPT !.statements = NilStatements], ev.ts, sendRet, n)
      [] cat = "BL_COMMIT" -> commit(a, ev.ts, sendRet, n)
      [] OTHER ->
           IF IsCrossDb(ev) THEN Continue(a)
           ELSE LET b == [a EXCEPT !.statements =
                            AppendStatements(@, QueryStatements(ev, cat, cc, n))]
                IN IF a.autocommit THEN commit(b, ev.ts, sendRet, n)
                   ELSE Continue(b)

\* A mutant of IsBeginGTID: every GTID_EVENT begins a transaction.
IsBeginGTIDAlways(ev) == TRUE

\* ev.IsBeginGTID(format)
IsBeginGTID(ev) == ev.begin

\* The switch on the kind of the event.
Dispatch(a, ev, cc, sendRet, n) ==
  CASE ev.kind = "GTID" -> IF IsBeginGTID(ev) THEN Continue(begin(a)) ELSE Continue(a)
    [] ev.kind = "XID" -> commit(a, ev.ts, sendRet, n)
    [] ev.kind = "INTVAR" ->
         IF ~ev.ok THEN Return(a, Err("can't parse INTVAR_EVENT"))
         ELSE Continue([a EXCEPT !.statements = AppendStatements(@,
                 <<Statement("BL_SET", SetIntVarSql("INSERT_ID", 101), NoCharset, n, "intvar")>>)])
    [] ev.kind = "RAND" ->
         IF ~ev.ok THEN Return(a, Err("can't parse RAND_EVENT"))
         ELSE Continue([a EXCEPT !.statements = AppendStatements(@,
                 <<Statement("BL_SET", SetRandSql(7, 8), NoCharset, n, "rand")>>)])
    [] ev.kind = "QUERY" -> HandleQuery(a, ev, cc, sendRet, n)
    [] OTHER -> Continue(a)

\* A mutant of SetFormat: only the first format of the stream is kept.
SetFormatOnce(a, f) == IF a.format = ZeroFormat THEN [a EXCEPT !.format = f] ELSE a

\* format, err = ev.Format()
SetFormat(a, f) == [a EXCEPT !.format = f]

\* A mutant of IsZero: every format counts as known.
IsZeroNever(format) == FALSE

\* format.IsZero(): no FORMAT_DESCRIPTION_EVENT has been decoded yet.
IsZero(format) == format = ZeroFormat

\* The body of the loop after the select: validity, format discovery, the
\* pre-format gate, the checksum strip, the GTID absorb and the dispatch.
ParseEvent(a, ev, cc, sendRet, n) ==
  IF ~ev.valid THEN Return(a, Err("can't parse binlog event, invalid data"))
  ELSE IF ev.kind = "FORMAT_DESC"
  THEN IF ev.fmt = ZeroFormat
       THEN Return(SetFormat(a, ev.fmt), Err("can't parse FORMAT_DESCRIPTION_EVENT"))
       ELSE Continue(SetFormat(a, ev.fmt))
  ELSE IF IsZero(a.format)
  THEN IF ev.kind = "ROTATE" THEN Continue(a)
       ELSE Return(a, Err("got a real event before FORMAT_DESCRIPTION_EVENT"))
  ELSE IF ~ev.strip THEN Return(a, Err("can't strip checksum from binlog event"))
  ELSE LET g == AbsorbGTID(a, ev)
       IN IF g.returned THEN g ELSE Dispatch(g.a, ev, cc, sendRet, n)

(***************************************************************************)
(* Stream.                                                                 *)
(***************************************************************************)
Init ==
  /\ pc = "start"
  /\ startPos \in StartPositions
  /\ clientCharset \in {NoCharset, "cs-utf8"}
  /\ conn = "none"
  /\ cs = NoCall
  /\ shuttingDown = FALSE
  /\ asm = InitAsm(startPos)
  /\ stopPos = startPos
  /\ err = NilErr
  /\ exit = ""
  /\ log = <<>>
  /\ cancelAt = -1

\* A mutant of DeferredErr: the error is returned as it is.
DeferredErrUnwrapped(sp, e) == e

\* The deferred function of Stream: a non-nil err is replaced by a
\* "stream error @ stopPos" error that formats it.
DeferredErr(sp, e) == IF e # NilErr THEN StreamError(sp, e) ELSE e

\* A mutant of StreamReturns: the connection is left open.
StreamReturnsLeaks(sp, e, why) ==
  /\ pc' = "done"
  /\ stopPos' = sp
  /\ err' = DeferredErr(sp, e)
  /\ exit' = why
  /\ conn' = conn

\* A return of Stream with stopPos sp and error e, at the return named why;
\* the deferred bls.conn.Close() runs when the connection was opened.
StreamReturns(sp, e, why) ==
  /\ pc' = "done"
  /\ stopPos' = sp
  /\ err' = DeferredErr(sp, e)
  /\ exit' = why
  /\ conn' = IF conn = "open" THEN "closed" ELSE conn

\* bls.conn, err = bls.mysqld.NewSlaveConnection()
NewSlaveConnection ==
  /\ pc = "start"
  /\ \E ok \in BOOLEAN :
       IF ok
       THEN /\ conn' = "open"
            /\ pc' = "charset"
            /\ UNCHANGED <<stopPos, err, exit>>
       ELSE StreamReturns(stopPos, OtherErr, "NewSlaveConnection")
  /\ UNCHANGED <<startPos, clientCharset, cs, shuttingDown, asm, log, cancelAt>>

\* A mutant of CharsetsDiffer: only the server field is compared.
CharsetsDifferByServer(p, q) == CharsetOf(p)[3] # CharsetOf(q)[3]

\* *cs != *bls.clientCharset
CharsetsDiffer(p, q) == CharsetOf(p) # CharsetOf(q)

\* Check that the default charsets match, if the client specified one.
\* got is what bls.conn.GetCharset() returns ("error": it fails).
CheckCharset ==
  /\ pc = "charset"
  /\ IF clientCharset = NoCharset
     THEN /\ pc' = "dump"
          /\ UNCHANGED <<conn, cs, stopPos, err, exit>>
     ELSE \E got \in Charsets \cup {"error"} :
            /\ cs' = got
            /\ IF got = "error"
               THEN StreamReturns(stopPos, Err("can't get charset to check binlog stream"), "GetCharset")
               ELSE IF CharsetsDiffer(got, clientCharset)
               THEN StreamReturns(stopPos, Err("binlog stream client charset doesn't match server"), "charset mismatch")
               ELSE /\ pc' = "dump"
                    /\ UNCHANGED <<conn, stopPos, err, exit>>
  /\ UNCHANGED <<startPos, clientCharset, shuttingDown, asm, log, cancelAt>>

\* events, err = bls.conn.StartBinlogDump(bls.startPos); then parseEvents starts.
StartBinlogDump ==
  /\ pc = "dump"
  /\ \E ok \in BOOLEAN :
       IF ok
       THEN /\ pc' = "top"
            /\ asm' = InitAsm(startPos)
            /\ UNCHANGED <<conn, stopPos, err, exit>>
       ELSE /\ StreamReturns(stopPos, OtherErr, "StartBinlogDump")
            /\ UNCHANGED asm
  /\ UNCHANGED <<startPos, clientCharset, cs, shuttingDown, log, cancelAt>>

\* ctx.IsRunning()
IsRunning == ~shuttingDown

\* A mutant of LoopRuns: the loop has no condition.
LoopRunsForever == TRUE

\* The condition of the loop: for ctx.IsRunning()
LoopRuns == IsRunning

\* A mutant of ReturnOnClose: the open transaction is flushed when the channel
\* closes.
ReturnOnCloseFlushes(a) ==
  IF a.statements.isNil THEN a ELSE commit(a, 0, NilErr, 0).a

\* The locals when parseEvents returns because the events channel has been
\* closed: nothing is sent, nothing is changed.
ReturnOnClose(a) == a

\* for ctx.IsRunning() { ... }; return pos, nil
LoopTop ==
  /\ pc = "top"
  /\ IF LoopRuns
     THEN /\ pc' = "select"
          /\ UNCHANGED <<conn, stopPos, err, exit>>
     ELSE StreamReturns(asm.pos, NilErr, "loop exit")
  /\ UNCHANGED <<startPos, clientCharset, cs, shuttingDown, asm, log, cancelAt>>

\* case <-ctx.ShuttingDown: return pos, nil
SelectShutdown ==
  /\ pc = "select"
  /\ shuttingDown
  /\ StreamReturns(asm.pos, NilErr, "shutdown")
  /\ UNCHANGED <<startPos, clientCharset, cs, shuttingDown, asm, log, cancelAt>>

\* case ev, ok = <-events with !ok: the driver closed the channel.
SelectClosed ==
  /\ pc = "select"
  /\ asm' = ReturnOnClose(asm)
  /\ StreamReturns(asm'.pos, ErrServerEOF, "channel closed")
  /\ UNCHANGED <<startPos, clientCharset, cs, shuttingDown, log, cancelAt>>

\* case ev, ok = <-events with ok: the event the driver sent, one of evs, is
\* dequeued and the body of the loop runs on it, including the
\* sendTransaction call.
Receive(evs) ==
  /\ pc = "select"
  /\ Len(log) < MaxEvents
  /\ \E ev \in evs, sendRet \in SendResults :
       LET n == Len(log) + 1
           r == ParseEvent(asm, ev, clientCharset, sendRet, n)
       IN /\ log' = Append(log, [ev |-> ev, pre |-> asm])
          /\ asm' = r.a
          /\ IF r.returned
             THEN StreamReturns(r.a.pos, r.err, "event")
             ELSE /\ pc' = "top"
                  /\ UNCHANGED <<conn, stopPos, err, exit>>
  /\ UNCHANGED <<startPos, clientCharset, cs, shuttingDown, cancelAt>>

ReceiveEvent == Receive(Events)

\* The same, in a session in which the format changes on the way.
ReceiveFormatChange == Receive(FormatChangeEvents)

\* The same, in a session whose query events carry the GTIDs.
ReceiveHeaderGTID == Receive(HeaderGTIDEvents)

\* The service manager stops the service: ctx.ShuttingDown is closed.
Cancel ==
  /\ pc # "done"
  /\ ~shuttingDown
  /\ shuttingDown' = TRUE
  /\ cancelAt' = Len(log)
  /\ UNCHANGED <<pc, startPos, clientCharset, conn, cs, asm, stopPos, err, exit, log>>

Next ==
  \/ NewSlaveConnection
  \/ CheckCharset
  \/ StartBinlogDump
  \/ LoopTop
  \/ SelectShutdown
  \/ SelectClosed
  \/ ReceiveEvent
  \/ Cancel

Spec == Init /\ [][Next]_vars

\* A session in which the format changes on the way.
NextFormatChange ==
  \/ NewSlaveConnection
  \/ CheckCharset
  \/ StartBinlogDump
  \/ LoopTop
  \/ SelectShutdown
  \/ SelectClosed
  \/ ReceiveFormatChange
  \/ Cancel

SpecFormatChange == Init /\ [][NextFormatChange]_vars

\* A session whose query events carry the GTIDs.
NextHeaderGTID ==
  \/ NewSlaveConnection
  \/ CheckCharset
  \/ StartBinlogDump
  \/ LoopTop
  \/ SelectShutdown
  \/ SelectClosed
  \/ ReceiveHeaderGTID
  \/ Cancel

SpecHeaderGTID == Init /\ [][NextHeaderGTID]_vars

(***************************************************************************)
(* Vocabulary of the properties, read off the histories.                   *)
(***************************************************************************)
calls == asm.calls
Done == pc = "done"
\* The returns of parseEvents that do not come from processing an event.
Cancelled == exit \in {"shutdown", "loop exit"}
ChannelClosed == exit = "channel closed"

\* The locals after the i-th dequeued event was processed.
After(i) == IF i < Len(log) THEN log[i + 1].pre ELSE asm

\* The i-th event got as far as the GTID absorb step: it is valid, is not a
\* format description, came after format discovery and its checksum strips.
Ingested(i) ==
  /\ log[i].ev.valid
  /\ log[i].ev.kind # "FORMAT_DESC"
  /\ log[i].pre.format # ZeroFormat
  /\ log[i].ev.strip

\* The i-th event carries a GTID that decodes.
CarriesGTID(i) == log[i].ev.gtid \in GTIDs

\* The i-th event reached the switch on its kind.
Dispatched(i) == Ingested(i) /\ log[i].ev.gtid # BadGTID

\* The i-th event is a decoded query of the given categories.
IsQueryOf(i, cats) ==
  /\ log[i].ev.kind = "QUERY"
  /\ log[i].ev.ok
  /\ getStatementCategory(log[i].ev.sql) \in cats

\* The i-th event is a statement of another database.
OtherDb(i) == log[i].ev.db # "" /\ log[i].ev.db # dbname

\* The i-th event called begin().
BeginTrigger(i) ==
  /\ Dispatched(i)
  /\ \/ log[i].ev.kind = "GTID" /\ log[i].ev.begin
     \/ IsQueryOf(i, {"BL_BEGIN"})

\* The i-th event is an XID, a COMMIT query or a ROLLBACK query.
CommitTrigger(i) ==
  /\ Dispatched(i)
  /\ \/ log[i].ev.kind = "XID"
     \/ IsQueryOf(i, {"BL_COMMIT", "BL_ROLLBACK"})

\* The i-th event is a committing event: a commit trigger, or an unfiltered
\* statement processed while autocommit is true.
Committing(i) ==
  \/ CommitTrigger(i)
  \/ /\ Dispatched(i)
     /\ IsQueryOf(i, {"BL_DML", "BL_DDL", "BL_SET", "BL_UNRECOGNIZED"})
     /\ ~OtherDb(i)
     /\ log[i].pre.autocommit

\* The statements of the k-th sendTransaction invocation.
Sent(k) == calls[k].trans.Statements.items

\* A statement as the consumer sees it.
Plain(s) == [Category |-> s.Category, Sql |-> s.Sql]
PlainTransaction(t) ==
  [Statements |-> [j \in 1..Len(t.Statements.items) |-> Plain(t.Statements.items[j])],
   Timestamp |-> t.Timestamp, TransactionId |-> t.TransactionId]

\* The events dequeued so far.
EventsOf(l) == [i \in 1..Len(l) |-> l[i].ev]

(***************************************************************************)
(* C1. Terminal sentinels of Stream.                                       *)
(***************************************************************************)
\* C1: when the event channel is closed by the driver, the error Stream
\* returns is the sentinel ErrServerEOF itself, and when sendTransaction
\* returns io.EOF it is the sentinel ErrClientEOF itself.
C1_SentinelsReturned ==
  Done =>
    /\ ChannelClosed => err = ErrServerEOF
    /\ (exit = "event" /\ calls # <<>> /\ calls[Len(calls)].ret = IoEOF)
         => err = ErrClientEOF

(***************************************************************************)
(* C2. Cancellation.                                                       *)
(***************************************************************************)
\* C2 as stated: once the cancellation signal has fired no event is dequeued
\* any more (even if one is ready at the same time), sendTransaction is not
\* invoked for an event dequeued after the signal, and parseEvents returns
\* the current position with a nil error, so that Stream returns nil.
C2_NoDequeueAfterSignal ==
  cancelAt # -1 =>
    /\ Len(log) = cancelAt
    /\ \A k \in 1..Len(calls) : calls[k].src <= cancelAt
    /\ (Done /\ Cancelled) => (stopPos = asm.pos /\ err = NilErr)

\* C2 amended: once the signal has fired at most one more event is dequeued
\* (the select may take a ready event instead of the shutdown case) and
\* sendTransaction is invoked for no other event; after that event the loop
\* does not reach its select again; a return through the shutdown case or
\* the loop condition happens only after the signal, returns the current
\* position and a nil error, and Stream returns nil.
C2_ExitWithinOneEvent ==
  /\ cancelAt # -1 =>
       /\ Len(log) <= cancelAt + 1
       /\ \A k \in 1..Len(calls) : calls[k].src <= cancelAt + 1
       /\ pc = "select" => Len(log) = cancelAt
  /\ (Done /\ Cancelled) =>
       /\ cancelAt # -1
       /\ stopPos = asm.pos
       /\ err = NilErr

\* An event was dequeued after the signal, sendTransaction was invoked for
\* it, and the loop then exited at its condition.
C2_Witness ==
  /\ Done /\ exit = "loop exit"
  /\ Len(log) = cancelAt + 1
  /\ calls # <<>> /\ calls[Len(calls)].src = Len(log)

(***************************************************************************)
(* C3. No partial transaction.                                             *)
(***************************************************************************)
\* The explicit transaction begun by the i-th event is still open: no commit
\* trigger has been processed since.
OpenSince(i) ==
  /\ BeginTrigger(i)
  /\ \A j \in (i + 1)..Len(log) : ~CommitTrigger(j)

\* C3: if the loop ends by cancellation or by closure of the event channel
\* while an explicit transaction is open, no sendTransaction invocation
\* carries a statement buffered since its begin().
C3_NoPartialTransaction ==
  (Done /\ (Cancelled \/ ChannelClosed)) =>
    \A i \in 1..Len(log) :
      OpenSince(i) =>
        \A k \in 1..Len(calls) : \A j \in 1..Len(Sent(k)) : Sent(k)[j].src <= i

\* FORMAT_DESC; GTID(g1, begin); QUERY(insert); <channel closes>: the insert
\* is buffered and no transaction at all was emitted.
C3_Witness ==
  /\ Done /\ ChannelClosed
  /\ Len(log) = 3 /\ OpenSince(2)
  /\ log[2].ev.kind = "GTID"
  /\ log[3].ev.sql = InsertSql
  /\ Len(asm.statements.items) = 2
  /\ calls = <<>>

(***************************************************************************)
(* C4. The final position.                                                 *)
(***************************************************************************)
\* The GTIDs of the events 1..n that carry one and were ingested.
RECURSIVE IngestedGTIDs(_)
IngestedGTIDs(n) ==
  IF n = 0 THEN {}
  ELSE IngestedGTIDs(n - 1)
         \cup (IF Ingested(n) /\ CarriesGTID(n) THEN {log[n].ev.gtid} ELSE {})

\* The GTIDs of the transactions a successful sendTransaction delivered.
DeliveredIds == {calls[k].trans.TransactionId : k \in {k \in 1..Len(calls) : calls[k].ret = NilErr}}

\* C4 as stated: on every termination of the loop the final position
\* contains, beyond startPos, only GTIDs whose transaction was delivered by a
\* sendTransaction call that returned success.
C4_OnlyDeliveredGTIDs ==
  (Done /\ exit \in {"shutdown", "loop exit", "channel closed", "event"}) =>
    \A g \in stopPos \ startPos : EncodeGTID(g) \in DeliveredIds

\* C4 amended: on every termination of the loop the final position is
\* startPos with the GTID of every ingested event folded in, delivered or
\* not; it contains the GTID of every delivered transaction that has one.
C4_FinalPositionIsIngested ==
  (Done /\ exit \in {"shutdown", "loop exit", "channel closed", "event"}) =>
    /\ stopPos = startPos \cup IngestedGTIDs(Len(log))
    /\ \A id \in DeliveredIds : id # "" => \E g \in stopPos : id = EncodeGTID(g)

\* The loop ended with a GTID in the final position whose transaction was
\* never handed to sendTransaction.
C4_Witness ==
  /\ Done /\ ChannelClosed
  /\ 1 \in stopPos
  /\ calls = <<>>

(***************************************************************************)
(* C5. The transaction id.                                                 *)
(***************************************************************************)
\* C5 as stated: every transaction passed to sendTransaction carries the
\* serialization of the GTID most recently folded into pos, also when it is
\* emitted before any GTID-bearing event of the session.
C5_IdIsLastFoldedGTID ==
  \A k \in 1..Len(calls) :
    \E g \in calls[k].pos :
      /\ calls[k].trans.TransactionId = EncodeGTID(g)
      /\ calls[k].folded # <<>> => g = calls[k].folded[Len(calls[k].folded)]

\* C5 amended: every transaction passed to sendTransaction carries the
\* serialization of the GTID most recently folded into pos during the
\* session; one emitted before any GTID-bearing event of the session carries
\* the serialization of the nil GTID, whatever startPos holds.
C5_IdIsSessionGTID ==
  \A k \in 1..Len(calls) :
    calls[k].trans.TransactionId =
      IF calls[k].folded = <<>> THEN EncodeGTID(NoGTID)
      ELSE EncodeGTID(calls[k].folded[Len(calls[k].folded)])

\* One transaction was emitted before any GTID was ingested and one by a
\* COMMIT query that carries a GTID itself.
C5_Witness ==
  /\ Len(calls) = 2
  /\ calls[1].folded = <<>>
  /\ calls[1].trans.TransactionId = EncodeGTID(NoGTID)
  /\ calls[1].pos = startPos
  /\ calls[2].folded = <<2>>
  /\ calls[2].trans.TransactionId = EncodeGTID(2)

(***************************************************************************)
(* C6. Position update.                                                    *)
(***************************************************************************)
\* C6: for every ingested event pos is unchanged or is the prior pos with the
\* event's GTID folded in; the fold happens at ingest, exactly when the event
\* is valid, is not a format description, arrives after format discovery and
\* carries a GTID that decodes (the GTID is read from the checksum-stripped
\* event); nothing else changes pos between two events or before the return.
\* Hence after FORMAT_DESC; GTID(g1, begin); QUERY(insert); <channel closes>
\* the returned position includes g1.
C6_PositionUpdate ==
  /\ \A i \in 1..Len(log) :
       LET folds == Ingested(i) /\ CarriesGTID(i) IN
       /\ After(i).pos = IF folds THEN AppendGTID(log[i].pre.pos, log[i].ev.gtid)
                         ELSE log[i].pre.pos
       /\ After(i).folded = IF folds THEN Append(log[i].pre.folded, log[i].ev.gtid)
                            ELSE log[i].pre.folded
  /\ log # <<>> => log[1].pre.pos = startPos
  /\ log = <<>> => asm.pos = startPos
  /\ (Done /\ exit \in {"shutdown", "loop exit", "channel closed", "event"})
       => stopPos = asm.pos
  /\ (Done /\ ChannelClosed /\ Len(log) = 3 /\ log[1].ev.kind = "FORMAT_DESC"
        /\ log[1].ev.fmt # ZeroFormat
        /\ log[2].ev.kind = "GTID" /\ log[2].ev.gtid = 1 /\ log[2].ev.begin
        /\ log[3].ev.sql = InsertSql)
       => 1 \in stopPos

\* FORMAT_DESC; GTID(g1, begin); QUERY(insert); <channel closes>, and the
\* returned position holds g1 beside what startPos held.
C6_Witness ==
  /\ Done /\ ChannelClosed
  /\ Len(log) = 3
  /\ log[2].ev.kind = "GTID" /\ log[2].ev.gtid = 1 /\ log[2].ev.begin
  /\ log[3].ev.sql = InsertSql /\ log[3].ev.db = dbname
  /\ stopPos = startPos \cup {1}

(***************************************************************************)
(* C7. Database filter.                                                    *)
(***************************************************************************)
\* C7: no statement of a query event whose database is non-empty and differs
\* from dbname, and no SET TIMESTAMP synthesized for it, is in any
\* transaction passed to sendTransaction, explicit transaction or not; an XID
\* that follows such an event still emits a transaction, with an empty
\* statement list when nothing else was buffered.
C7_DatabaseFilter ==
  /\ \A k \in 1..Len(calls) : \A j \in 1..Len(Sent(k)) :
       ~(log[Sent(k)[j].src].ev.kind = "QUERY" /\ OtherDb(Sent(k)[j].src))
  /\ \A i \in 1..(Len(log) - 1) :
       (Dispatched(i) /\ log[i].ev.kind = "QUERY" /\ log[i].ev.ok /\ OtherDb(i)
          /\ IsQueryOf(i, {"BL_DML", "BL_DDL", "BL_SET", "BL_UNRECOGNIZED"})
          /\ Dispatched(i + 1) /\ log[i + 1].ev.kind = "XID")
       => \E k \in 1..Len(calls) :
            /\ calls[k].src = i + 1
            /\ Sent(k) = log[i].pre.statements.items

\* FORMAT_DESC; GTID(g1); QUERY(db = "other", insert); XID: the statement was
\* skipped and the XID emitted a transaction with an empty statement list.
C7_Witness ==
  /\ Len(log) = 4 /\ Len(calls) = 1
  /\ log[2].ev.kind = "GTID" /\ ~log[2].ev.begin
  /\ IsQueryOf(3, {"BL_DML"}) /\ OtherDb(3) /\ Dispatched(3)
  /\ log[4].ev.kind = "XID"
  /\ calls[1].src = 4 /\ Sent(1) = <<>>
  /\ calls[1].trans.TransactionId = EncodeGTID(1)

(***************************************************************************)
(* C8. Emission order.                                                     *)
(***************************************************************************)
\* The committing events among the first n, in stream order.
RECURSIVE CommittingUpTo(_)
CommittingUpTo(n) ==
  IF n = 0 THEN <<>>
  ELSE IF Committing(n) THEN Append(CommittingUpTo(n - 1), n)
       ELSE CommittingUpTo(n - 1)

\* C8: the sendTransaction invocations are, in order, one for each processed
\* committing event of the stream (XID, COMMIT query, ROLLBACK query, or an
\* unfiltered statement processed while autocommit is true); the invocation
\* is made before the next event is dequeued and the transaction carries the
\* timestamp of the committing event.
C8_EmissionOrder ==
  /\ [k \in 1..Len(calls) |-> calls[k].src] = CommittingUpTo(Len(log))
  /\ \A k \in 1..Len(calls) :
       calls[k].trans.Timestamp = log[calls[k].src].ev.ts
  /\ \A i \in 1..Len(log) :
       After(i).calls = SubSeq(calls, 1, Cardinality({k \in 1..Len(calls) : calls[k].src <= i}))

\* Three committing events of different kinds were each answered by one
\* invocation, in stream order, with the timestamp of the event.
C8_Witness ==
  /\ Len(log) = 4 /\ Len(calls) = 3
  /\ IsQueryOf(2, {"BL_DDL"}) /\ log[3].ev.kind = "XID" /\ IsQueryOf(4, {"BL_ROLLBACK"})
  /\ calls[1].trans.Timestamp = 101
  /\ calls[2].trans.Timestamp = 100
  /\ calls[3].trans.Timestamp = 101

(***************************************************************************)
(* C9. Statement pairing.                                                  *)
(***************************************************************************)
\* The SET TIMESTAMP statement synthesized for the event that produced s.
IsTimestampFor(t, s) ==
  /\ t.role = "timestamp"
  /\ t.src = s.src
  /\ t.Category = "BL_SET"
  /\ t.Sql = SetTimestampSql(log[s.src].ev.ts)

\* The statements of every transaction are in ingest order.
InIngestOrder ==
  \A k \in 1..Len(calls) : \A j \in 1..(Len(Sent(k)) - 1) :
    Sent(k)[j].src <= Sent(k)[j + 1].src

\* C9 as stated: within every emitted transaction the statements are in
\* ingest order and every statement that is not itself a synthesized SET
\* TIMESTAMP is immediately preceded by the SET TIMESTAMP of its event.
C9_EveryStatementPaired ==
  /\ InIngestOrder
  /\ \A k \in 1..Len(calls) : \A j \in 1..Len(Sent(k)) :
       Sent(k)[j].role # "timestamp" =>
         /\ j > 1
         /\ IsTimestampFor(Sent(k)[j - 1], Sent(k)[j])

\* C9 amended: within every emitted transaction the statements are in ingest
\* order; every statement of a query event is immediately preceded by the
\* SET TIMESTAMP of its event, and every synthesized SET TIMESTAMP is
\* immediately followed by the statement it was synthesized for; the SET
\* statements of INTVAR and RAND events are emitted without a SET TIMESTAMP
\* of their own.
C9_QueryStatementsPaired ==
  /\ InIngestOrder
  /\ \A k \in 1..Len(calls) : \A j \in 1..Len(Sent(k)) :
       /\ Sent(k)[j].role = "query" =>
            /\ j > 1
            /\ IsTimestampFor(Sent(k)[j - 1], Sent(k)[j])
            /\ Sent(k)[j].Sql = log[Sent(k)[j].src].ev.sql
       /\ Sent(k)[j].role = "timestamp" =>
            /\ j < Len(Sent(k))
            /\ Sent(k)[j + 1].role = "query"
            /\ IsTimestampFor(Sent(k)[j], Sent(k)[j + 1])
       /\ Sent(k)[j].role \in {"intvar", "rand"} =>
            (j > 1 => Sent(k)[j - 1].src # Sent(k)[j].src)

\* A transaction was emitted that holds the SET of an INTVAR event, with no
\* SET TIMESTAMP before it, and then a paired statement.
C9_Witness ==
  /\ calls # <<>>
  /\ Len(Sent(1)) = 3
  /\ Sent(1)[1].role = "intvar"
  /\ Sent(1)[2].role = "timestamp"
  /\ Sent(1)[3].role = "query"

(***************************************************************************)
(* C10. The autocommit INSERT scenario.                                    *)
(***************************************************************************)
\* FORMAT_DESC; GTID(g1) without the begin flag; QUERY(dbname, insert,
\* ts = 100); XID(ts = 100).
Scenario1 ==
  <<[BaseEvent EXCEPT !.kind = "FORMAT_DESC", !.fmt = 1],
    [BaseEvent EXCEPT !.kind = "GTID", !.gtid = 1],
    Query(dbname, InsertSql, "cs-utf8", 100),
    [BaseEvent EXCEPT !.kind = "XID"]>>

\* The events of Scenario1 were processed and every sendTransaction succeeded.
Scenario1Ran ==
  /\ EventsOf(log) = Scenario1
  /\ \A k \in 1..Len(calls) : calls[k].ret = NilErr

InsertTransaction ==
  [Statements |-> <<[Category |-> "BL_SET", Sql |-> <<"SET", "TIMESTAMP=100">>],
                    [Category |-> "BL_DML", Sql |-> InsertSql]>>,
   Timestamp |-> 100, TransactionId |-> EncodeGTID(1)]

EmptyTransaction ==
  [Statements |-> <<>>, Timestamp |-> 100, TransactionId |-> EncodeGTID(1)]

\* C10 as stated: the scenario emits exactly one transaction in total, with
\* the SET TIMESTAMP and the insert, timestamp 100 and the id of g1.
C10_OneTransaction ==
  Scenario1Ran =>
    [k \in 1..Len(calls) |-> PlainTransaction(calls[k].trans)] = <<InsertTransaction>>

\* C10 amended: the scenario emits two transactions: the autocommit insert
\* emits the one the claim describes, and the XID then emits a second one
\* with an empty statement list, timestamp 100 and the id of g1.
C10_TwoTransactions ==
  Scenario1Ran =>
    [k \in 1..Len(calls) |-> PlainTransaction(calls[k].trans)]
      = <<InsertTransaction, EmptyTransaction>>

C10_Witness ==
  /\ Scenario1Ran
  /\ Len(calls) = 2
  /\ pc = "top"

(***************************************************************************)
(* C11. Commit paths and ROLLBACK.                                         *)
(***************************************************************************)
\* The gtid the loop holds once the i-th event has passed the absorb step.
GTIDAt(i) ==
  IF Ingested(i) /\ CarriesGTID(i) THEN log[i].ev.gtid ELSE log[i].pre.gtid

\* C11: an event processed while autocommit is false invokes sendTransaction
\* only if it is an XID, a COMMIT query or a ROLLBACK query; a processed
\* ROLLBACK query invokes it exactly once, with an empty statement list, the
\* timestamp of the event and the current GTID, whatever was buffered; and no
\* statement buffered before a ROLLBACK is in a transaction emitted at or
\* after it.
C11_CommitPathsAndRollback ==
  /\ \A k \in 1..Len(calls) :
       ~log[calls[k].src].pre.autocommit => CommitTrigger(calls[k].src)
  /\ \A i \in 1..Len(log) :
       (Dispatched(i) /\ IsQueryOf(i, {"BL_ROLLBACK"})) =>
         /\ Cardinality({k \in 1..Len(calls) : calls[k].src = i}) = 1
         /\ \A k \in 1..Len(calls) :
              /\ calls[k].src = i =>
                   /\ Sent(k) = <<>>
                   /\ calls[k].trans.Timestamp = log[i].ev.ts
                   /\ calls[k].trans.TransactionId = EncodeGTID(GTIDAt(i))
              /\ calls[k].src >= i =>
                   \A j \in 1..Len(Sent(k)) : Sent(k)[j].src > i

\* FORMAT_DESC; GTID(g1, begin); QUERY(insert); QUERY(rollback): the buffered
\* pair was discarded and one empty transaction was emitted for g1.
C11_Witness ==
  /\ Len(log) = 4 /\ Len(calls) = 1
  /\ log[2].ev.kind = "GTID" /\ log[2].ev.begin /\ log[2].ev.gtid = 1
  /\ log[3].ev.sql = InsertSql /\ ~OtherDb(3)
  /\ IsQueryOf(4, {"BL_ROLLBACK"}) /\ Dispatched(4)
  /\ Len(log[4].pre.statements.items) = 2
  /\ ~log[4].pre.autocommit
  /\ Sent(1) = <<>>
  /\ calls[1].trans.Timestamp = 101
  /\ calls[1].trans.TransactionId = EncodeGTID(1)

(***************************************************************************)
(* C12. Connection lifecycle.                                              *)
(***************************************************************************)
\* The returns of Stream that come after the connection was opened.
ExitsAfterOpen ==
  {"GetCharset", "charset mismatch", "StartBinlogDump", "shutdown",
   "loop exit", "channel closed", "event"}

\* One step of Stream, as the connection sees it: it is only ever opened from
\* the unopened state and closed from the open state, nothing changes it once
\* it is closed, an event is dequeued and sendTransaction is invoked only
\* while it is open, and neither happens once it is closed.
ConnStep ==
  /\ conn' # conn =>
       \/ conn = "none" /\ conn' = "open"
       \/ conn = "open" /\ conn' = "closed" /\ pc' = "done"
  /\ (log' # log \/ asm'.calls # asm.calls) => conn = "open"
  /\ conn = "closed" => (log' = log /\ asm' = asm /\ pc' = "done")

\* C12: in every run of Stream the connection is opened at most once; when
\* it was opened it is closed exactly once, on every exit path; no event is
\* processed and no transaction emitted after it is closed.
C12_ConnectionLifecycle ==
  /\ [](Done => /\ exit \in ExitsAfterOpen => conn = "closed"
                /\ exit = "NewSlaveConnection" => conn = "none"
                /\ exit \in ExitsAfterOpen \cup {"NewSlaveConnection"})
  /\ [](conn = "closed" => Done)
  /\ [][ConnStep]_vars

\* Stream returned on a send error after two transactions, with the
\* connection closed.
C12_Witness ==
  /\ Done /\ exit = "event" /\ conn = "closed"
  /\ Len(calls) = 2
  /\ calls[2].ret = OtherErr

(***************************************************************************)
(* C13. Charset precheck.                                                  *)
(***************************************************************************)
\* bls.conn.StartBinlogDump has been called.
DumpCalled ==
  \/ pc \in {"top", "select"}
  \/ exit \in {"StartBinlogDump", "shutdown", "loop exit", "channel closed", "event"}

\* The charset check is behind Stream and let it through.
PrecheckPassed == pc = "dump" \/ DumpCalled

\* Stream failed in the charset check.
PrecheckFailed ==
  /\ Done /\ exit \in {"GetCharset", "charset mismatch"}
  /\ err # NilErr
  /\ ~DumpCalled /\ log = <<>> /\ calls = <<>>
  /\ asm = InitAsm(startPos)

\* C13: with a client charset, when GetCharset fails or returns a Charset
\* that is not equal to it as a 3-tuple, Stream fails before the stream
\* starts: StartBinlogDump is not called, no event is consumed and
\* sendTransaction is not invoked; when the 3-tuples are equal Stream goes on
\* to StartBinlogDump; without a client charset GetCharset is not called and
\* Stream goes on to StartBinlogDump.
C13_CharsetPrecheck ==
  /\ (clientCharset # NoCharset /\ cs # NoCall) =>
       IF cs = "error" \/ CharsetOf(cs) # CharsetOf(clientCharset)
       THEN PrecheckFailed
       ELSE PrecheckPassed
  /\ clientCharset = NoCharset =>
       /\ cs = NoCall
       /\ exit \notin {"GetCharset", "charset mismatch"}
       /\ pc \notin {"start", "charset"} => (PrecheckPassed \/ exit = "NewSlaveConnection")
  /\ (clientCharset # NoCharset /\ PrecheckPassed) => cs # NoCall
  /\ (cs = "error") = (exit = "GetCharset")

\* The server's Charset differs from the client's in one field of the three
\* and Stream failed on the mismatch.
C13_Witness ==
  /\ Done /\ exit = "charset mismatch"
  /\ clientCharset = "cs-utf8" /\ cs = "server-mixed"
  /\ CharsetOf(cs)[1] = CharsetOf(clientCharset)[1]
  /\ CharsetOf(cs)[3] = CharsetOf(clientCharset)[3]
  /\ conn = "closed"

(***************************************************************************)
(* C14. Autocommit rule.                                                   *)
(***************************************************************************)
\* The i-th event is an unfiltered statement processed while autocommit is
\* true.
AutocommitStatement(i) ==
  /\ Dispatched(i)
  /\ IsQueryOf(i, {"BL_DML", "BL_DDL", "BL_SET", "BL_UNRECOGNIZED"})
  /\ ~OtherDb(i)
  /\ log[i].pre.autocommit

\* C14: the transaction emitted for an unfiltered DML, DDL, SET or
\* UNRECOGNIZED query processed while autocommit is true holds exactly two
\* statements, the synthesized SET TIMESTAMP and the statement itself,
\* whatever events preceded it since the last emission.
C14_AutocommitTwoStatements ==
  \A k \in 1..Len(calls) :
    AutocommitStatement(calls[k].src) =>
      /\ Len(Sent(k)) = 2
      /\ Plain(Sent(k)[1]) = [Category |-> "BL_SET",
                              Sql |-> SetTimestampSql(log[calls[k].src].ev.ts)]
      /\ Plain(Sent(k)[2]) = [Category |-> getStatementCategory(log[calls[k].src].ev.sql),
                              Sql |-> log[calls[k].src].ev.sql]

(***************************************************************************)
(* C15. Assembler invariant.                                               *)
(***************************************************************************)
\* C15: between two events of the loop the statement buffer is non-nil if
\* and only if autocommit is false.
C15_PendingIffNotAutocommit ==
  pc \in {"top", "select"} => (~asm.statements.isNil <=> ~asm.autocommit)

(***************************************************************************)
(* C16. Pre-format gate.                                                   *)
(***************************************************************************)
\* The i-th event is a FORMAT_DESCRIPTION event that was decoded.
FormatDecoded(i) ==
  /\ log[i].ev.valid
  /\ log[i].ev.kind = "FORMAT_DESC"
  /\ log[i].ev.fmt # ZeroFormat

\* No FORMAT_DESCRIPTION event has been decoded among the first n events.
NoFormatBefore(n) == \A j \in 1..n : ~FormatDecoded(j)

\* The i-th event ended the loop.
Fatal(i) == i = Len(log) /\ Done /\ exit = "event"

\* C16: while no format has been decoded, a valid rotate event changes
\* nothing and emits nothing and the loop goes on, and every other valid
\* event that is not a format description ends the stream with an error;
\* so before the first FORMAT_DESCRIPTION event is decoded no GTID is folded
\* into pos, no statement is buffered and sendTransaction is not invoked.
C16_PreFormatGate ==
  /\ \A i \in 1..Len(log) :
       (NoFormatBefore(i - 1) /\ log[i].ev.valid /\ log[i].ev.kind # "FORMAT_DESC") =>
         /\ After(i) = log[i].pre
         /\ IF log[i].ev.kind = "ROTATE"
            THEN ~Fatal(i)
            ELSE /\ Fatal(i)
                 /\ err = StreamError(stopPos,
                            Err("got a real event before FORMAT_DESCRIPTION_EVENT"))
  /\ NoFormatBefore(Len(log)) =>
       /\ asm.pos = startPos /\ asm.folded = <<>> /\ asm.gtid = NoGTID
       /\ asm.statements = NilStatements /\ asm.autocommit
       /\ calls = <<>>

\* A rotate event was ignored before the format was known, and the GTID
\* event that followed it, still before any format, ended the stream.
C16_Witness ==
  /\ Len(log) = 2
  /\ log[1].ev.kind = "ROTATE"
  /\ log[2].ev.kind = "GTID" /\ log[2].ev.gtid = 1
  /\ Fatal(2)
  /\ stopPos = startPos

(***************************************************************************)
(* C17. Format discovery.                                                  *)
(***************************************************************************)
\* The format decoded by the last FORMAT_DESCRIPTION event among the first n.
RECURSIVE LatestFormat(_)
LatestFormat(n) ==
  IF n = 0 THEN ZeroFormat
  ELSE IF FormatDecoded(n) THEN log[n].ev.fmt
  ELSE LatestFormat(n - 1)

\* The i-th event is a decoded FORMAT_DESCRIPTION event that is not the first.
RepeatedFormat(i) == FormatDecoded(i) /\ ~NoFormatBefore(i - 1)

\* What sendTransaction returned for the i-th event (nil when it was not
\* invoked for it).
RetOf(i) ==
  IF \E k \in 1..Len(calls) : calls[k].src = i
  THEN (CHOOSE c \in {calls[k] : k \in 1..Len(calls)} : c.src = i).ret
  ELSE NilErr

\* The locals after the loop has run on the events i..Len(log) of the log
\* with the repeated FORMAT_DESCRIPTION events taken out, from the locals a.
RECURSIVE WithoutRepeatedFormats(_, _)
WithoutRepeatedFormats(a, i) ==
  IF i > Len(log) THEN a
  ELSE IF RepeatedFormat(i) THEN WithoutRepeatedFormats(a, i + 1)
  ELSE LET r == ParseEvent(a, log[i].ev, clientCharset, RetOf(i), i)
       IN IF r.returned THEN r.a ELSE WithoutRepeatedFormats(r.a, i + 1)

\* C17: a FORMAT_DESCRIPTION event that decodes, wherever it comes in the
\* stream, replaces format by the decoded value and changes nothing else: no
\* sendTransaction invocation, the statement buffer, autocommit, gtid and
\* pos as before, and the loop goes on; every later event is processed under
\* the latest decoded format; and the transactions emitted are those the
\* same stream emits without its repeated FORMAT_DESCRIPTION events.
C17_FormatDiscovery ==
  /\ \A i \in 1..Len(log) :
       /\ FormatDecoded(i) =>
            /\ After(i) = [log[i].pre EXCEPT !.format = log[i].ev.fmt]
            /\ ~Fatal(i)
       /\ log[i].pre.format = LatestFormat(i - 1)
  /\ asm.format = LatestFormat(Len(log)) \/ (log # <<>> /\ Fatal(Len(log)))
  /\ WithoutRepeatedFormats(InitAsm(startPos), 1).calls = calls

\* FORMAT_DESC(1); GTID(g1, begin); FORMAT_DESC(2); XID: the second
\* FORMAT_DESCRIPTION event changed the format in the middle of the open
\* transaction and the XID, processed under the new format, emitted it.
C17_Witness ==
  /\ Len(log) = 4 /\ Len(calls) = 1
  /\ FormatDecoded(1) /\ log[1].ev.fmt = 1
  /\ log[2].ev.kind = "GTID" /\ log[2].ev.begin
  /\ FormatDecoded(3) /\ log[3].ev.fmt = 2
  /\ ~log[3].pre.autocommit /\ ~After(3).autocommit
  /\ log[4].ev.kind = "XID" /\ log[4].pre.format = 2
  /\ calls[1].src = 4
  /\ calls[1].trans.TransactionId = EncodeGTID(1)

(***************************************************************************)
(* C18. begin() recovery.                                                  *)
(***************************************************************************)
\* The statement s is in a transaction passed to sendTransaction.
Emitted(s) == \E k \in 1..Len(calls) : \E j \in 1..Len(Sent(k)) : Sent(k)[j] = s

\* C18: a begin-flagged GTID event or a BEGIN query adds one to the
\* ParseEvents error counter exactly when the statement buffer is non-nil at
\* the call, and nothing else changes the counter; it leaves an empty buffer
\* and autocommit false, the loop goes on, and no statement that was
\* buffered at the call is in any transaction passed to sendTransaction.
C18_BeginRecovery ==
  \A i \in 1..Len(log) :
    IF BeginTrigger(i)
    THEN /\ After(i).errors =
              log[i].pre.errors + (IF log[i].pre.statements.isNil THEN 0 ELSE 1)
         /\ After(i).statements = EmptyStatements
         /\ ~After(i).autocommit
         /\ ~Fatal(i)
         /\ \A m \in 1..Len(log[i].pre.statements.items) :
              ~Emitted(log[i].pre.statements.items[m])
    ELSE After(i).errors = log[i].pre.errors

\* FORMAT_DESC; GTID(g1, begin); QUERY(insert); QUERY(BEGIN): the second
\* begin() found the pair of the insert buffered, counted one error and
\* dropped it.
C18_Witness ==
  /\ Len(log) = 4
  /\ log[2].ev.kind = "GTID" /\ BeginTrigger(2)
  /\ log[3].ev.sql = InsertSql
  /\ IsQueryOf(4, {"BL_BEGIN"}) /\ BeginTrigger(4)
  /\ Len(log[4].pre.statements.items) = 2
  /\ log[2].pre.errors = 0 /\ After(2).errors = 0
  /\ asm.errors = 1
  /\ asm.statements = EmptyStatements
  /\ calls = <<>>

(***************************************************************************)
(* C19. Send failure.                                                      *)
(***************************************************************************)
\* The error parseEvents returns when sendTransaction returned e.
SendFailure(e) == IF e = IoEOF THEN ErrClientEOF ELSE SendReplyError(e)

\* C19: when a sendTransaction invocation returns an error the loop ends at
\* once, with ErrClientEOF for the end-of-stream sentinel and with a "send
\* reply error" otherwise (the error Stream then wraps): that invocation is
\* the last one and its event the last one dequeued, and the statement
\* buffer and autocommit stay as they were at the call; they are reset to
\* nil and true after a successful invocation only.
C19_SendFailureTerminates ==
  \A k \in 1..Len(calls) :
    IF calls[k].ret # NilErr
    THEN /\ k = Len(calls)
         /\ calls[k].src = Len(log)
         /\ Fatal(Len(log))
         /\ err = StreamError(stopPos, SendFailure(calls[k].ret))
         /\ asm.statements = calls[k].trans.Statements
         /\ asm.autocommit = log[calls[k].src].pre.autocommit
    ELSE /\ After(calls[k].src).statements = NilStatements
         /\ After(calls[k].src).autocommit

\* An XID closed an explicit transaction of one insert, sendTransaction
\* returned io.EOF, and the loop ended with the pair still buffered.
C19_Witness ==
  /\ Len(log) = 4 /\ Len(calls) = 1
  /\ BeginTrigger(2)
  /\ log[3].ev.sql = InsertSql
  /\ log[4].ev.kind = "XID"
  /\ calls[1].ret = IoEOF
  /\ Fatal(4)
  /\ err = StreamError(stopPos, ErrClientEOF)
  /\ Len(asm.statements.items) = 2 /\ ~asm.autocommit

(***************************************************************************)
(* C20. A filtered statement and the assembler.                            *)
(***************************************************************************)
\* The i-th event is a statement of another database that reached the
\* cross-db filter.
Filtered(i) ==
  /\ Dispatched(i)
  /\ IsQueryOf(i, {"BL_DML", "BL_DDL", "BL_SET", "BL_UNRECOGNIZED"})
  /\ OtherDb(i)

\* The k-th invocation reports the GTID folded by the i-th event.
Reports(k, i) ==
  /\ Ingested(i) /\ CarriesGTID(i)
  /\ Len(calls[k].folded) = Len(After(i).folded)

\* C20: a DML, DDL, SET or UNRECOGNIZED query of another database invokes
\* sendTransaction zero times and leaves the statement buffer and autocommit
\* as they were, also when autocommit is true, and the loop goes on; only
\* gtid and pos change, by the GTID in its header; that GTID is reported as
\* a transaction id only by a later committing event that comes before the
\* next event with a GTID.
C20_FilteredIsNoOp ==
  \A i \in 1..Len(log) :
    Filtered(i) =>
      /\ After(i) = [log[i].pre EXCEPT
                       !.gtid = GTIDAt(i),
                       !.pos = AppendGTID(@, GTIDAt(i)),
                       !.folded = IF CarriesGTID(i) THEN Append(@, log[i].ev.gtid) ELSE @]
      /\ ~Fatal(i)
      /\ \A k \in 1..Len(calls) :
           /\ calls[k].src # i
           /\ Reports(k, i) =>
                /\ calls[k].src > i
                /\ Committing(calls[k].src)
                /\ \A j \in (i + 1)..calls[k].src : ~(Ingested(j) /\ CarriesGTID(j))

\* FORMAT_DESC; QUERY(db = "other", insert, g2) outside a transaction;
\* QUERY(db = targetdb, insert, g1): g2 is in pos and the only transaction
\* emitted carries the id of g1.
C20_Witness ==
  /\ Len(log) = 3 /\ Len(calls) = 1
  /\ Filtered(2) /\ log[2].pre.autocommit /\ log[2].ev.gtid = 2
  /\ AutocommitStatement(3) /\ log[3].ev.gtid = 1
  /\ 2 \in asm.pos
  /\ calls[1].trans.TransactionId = EncodeGTID(1)
  /\ ~Reports(1, 2)

=============================================================================
